---- MODULE Spec2Model ----
(***************************************************************************)
(* Model of the Zoom G3X MIDI controller (src/g3x_midi.py) and of the      *)
(* command scanner's response classifier (src/scan_commands.py).           *)
(*                                                                         *)
(* Python lists are 0-based; sequences here are 1-based, so data[i] of the *)
(* source is At(data, i).                                                  *)
(***************************************************************************)
EXTENDS Integers, Sequences, FiniteSets

VARIABLES
    phase,          \* harness of the pure functions: "call" before, "return" after
    low, high,      \* arguments of decode_14bit
    decoded,        \* value returned by decode_14bit
    data,           \* argument of parse_patch_data
    patch,          \* value returned by parse_patch_data (PatchData or None)
    an_cmd,         \* argument cmd of analyze_response
    an_response,    \* argument response of analyze_response
    notes,          \* value returned by analyze_response
    port,           \* ZoomG3X.port is not None
    input_port,     \* ZoomG3X.input_port is not None
    in_edit_mode,   \* ZoomG3X.in_edit_mode
    wire,           \* every message handed to port.send, oldest first
    pending,        \* messages waiting in input_port, oldest first
    call,           \* the last method called on the ZoomG3X, its arguments and outcome
    pc,             \* scan_commands.main: the statement it is at
    scan_start,     \* args.start
    scan_end,       \* args.end
    no_edit,        \* args.no_edit
    scan_cmd,       \* scan_commands: the loop variable cmd
    results,        \* scan_commands: the local list results
    report,         \* main: results, << >> until scan_commands has returned
    responding,     \* main: responding
    log,            \* the entries written to log_file and flushed
    drained,        \* what each probe's drain took out of the input port
    outstanding,    \* frames sent since the input port was last drained
    raised          \* the exception on its way out of main, "" when none

vars == << phase, low, high, decoded, data, patch, an_cmd, an_response, notes,
           port, input_port, in_edit_mode, wire, pending, call,
           pc, scan_start, scan_end, no_edit, scan_cmd, results, report,
           responding, log, drained, outstanding, raised >>

fnVars == << phase, low, high, decoded, data, patch, an_cmd, an_response, notes >>

g3xVars == << port, input_port, in_edit_mode, wire, pending, call >>

scanVars == << pc, scan_start, scan_end, no_edit, scan_cmd, results, report,
              responding, log, drained, outstanding, raised >>

-----------------------------------------------------------------------------
(* The records of the model.  TLC keeps the fields of a record in the order  *)
(* in which their names first occur in the module, which is the order given  *)
(* here; every record below is built with its fields in that order.          *)

\* a MIDI message: mido.Message(type, data=...)
Message == [data : Seq(Int), type : STRING]

\* class EffectSlot
EffectSlotRecord ==
    [slot_num : Int, effect_id : Int, enabled : BOOLEAN, knob_values : Seq(Int),
     raw_bytes : Seq(Int)]

\* class PatchData, and the None that parse_patch_data returns instead
PatchDataRecord ==
    [kind : {"PatchData"}, raw_data : Seq(Int), metadata : Seq(Int),
     patch_name : Seq(Int), effect_slots : Seq(EffectSlotRecord)]

NoPatchRecord == [kind : {"None"}, printed : STRING]

\* a note of analyze_response
NoteRecord == [tag : STRING, at : Int, bytes : Seq(Int), runs : Seq(Seq(Int))]

\* the arguments and the record of a call on the ZoomG3X
CallArgs == [enabled : BOOLEAN, slot : Int, knob : Int, value : Int]

CallRecord ==
    [op : STRING, args : CallArgs, outcome : STRING, returned : Seq(Int),
     sent_before : Nat]

\* an entry of the report of scan_commands
ResultRecord == [cmd : Int, tx : Seq(Int), responses : Seq(Seq(Int))]

\* what one _send_sysex does
SendResult ==
    [wire : Seq(Message), pending : Seq(Message), outcome : STRING,
     response : Seq(Int)]

-----------------------------------------------------------------------------
(* Bounds of the model *)

\* largest argument given to decode_14bit
MaxByte == 255

\* longest frame given to parse_patch_data
MaxFrameLen == 109

\* longest response given to analyze_response
MaxRespLen == 9

\* most messages the transport records in one run
MaxWire == 1

\* most messages waiting in the input port
MaxPending == 2

-----------------------------------------------------------------------------
(* Python's integer operators on non-negative integers *)

RECURSIVE BitAnd(_, _)
BitAnd(a, b) ==
    IF a = 0 \/ b = 0 THEN 0
    ELSE (a % 2) * (b % 2) + 2 * BitAnd(a \div 2, b \div 2)

RECURSIVE BitOr(_, _)
BitOr(a, b) ==
    IF a = 0 THEN b
    ELSE IF b = 0 THEN a
    ELSE (IF a % 2 = 1 \/ b % 2 = 1 THEN 1 ELSE 0) + 2 * BitOr(a \div 2, b \div 2)

RECURSIVE ShiftLeft(_, _)
ShiftLeft(a, n) == IF n = 0 THEN a ELSE ShiftLeft(2 * a, n - 1)

\* data[i] with a 0-based index
At(s, i) == s[i + 1]

\* data[i:j] with 0-based bounds (Python clamps j to len(data))
Slice(s, i, j) == SubSeq(s, i + 1, IF j < Len(s) THEN j ELSE Len(s))

-----------------------------------------------------------------------------
(* Constants of src/g3x_midi.py *)

SYSEX_PREFIX == << 82, 0, 89 >>
CMD_GET_PATCH_DATA == 41
CMD_MODIFY_EFFECT == 49
CMD_GET_PROGRAM_NUM == 51
CMD_ENTER_EDIT == 80
CMD_EXIT_EDIT == 81
SUBCMD_ON_OFF == 0
SUBCMD_EFFECT_TYPE == 1
EFFECT_SLOT_SIZE == 14
NUM_EFFECT_SLOTS == 6
PATCH_NAME_OFFSET == 96
PATCH_NAME_LENGTH == 11
\* the response command byte of a patch dump (response to 0x29)
PATCH_RESPONSE_CMD == 40
\* shortest frame parse_patch_data accepts
MIN_PATCH_LEN == 100
knob2_positions == << 8, 22, 35, 50, 64, 78 >>

-----------------------------------------------------------------------------
(* decode_14bit *)

decode_14bit_mask8(l, h) == BitOr(BitAnd(l, 255), ShiftLeft(BitAnd(h, 255), 7))

decode_14bit(l, h) == BitOr(BitAnd(l, 127), ShiftLeft(BitAnd(h, 127), 7))

-----------------------------------------------------------------------------
(* parse_patch_data *)

\* what parse_patch_data returns when a check fails: None, after printing
\* the message of that check
NoPatch(message) == [kind |-> "None", printed |-> message]

\* the loop over name_bytes: stop at the first 0, keep printable ASCII
RECURSIVE NameChars(_)
NameChars(bs) ==
    IF bs = << >> THEN << >>
    ELSE IF Head(bs) = 0 THEN << >>
    ELSE IF 32 <= Head(bs) /\ Head(bs) < 127
         THEN << Head(bs) >> \o NameChars(Tail(bs))
         ELSE NameChars(Tail(bs))

\* str.strip() on printable ASCII: the space is the only whitespace left
RECURSIVE LStrip(_)
LStrip(cs) ==
    IF cs # << >> /\ Head(cs) = 32 THEN LStrip(Tail(cs)) ELSE cs

RECURSIVE RStrip(_)
RStrip(cs) ==
    IF cs # << >> /\ cs[Len(cs)] = 32 THEN RStrip(SubSeq(cs, 1, Len(cs) - 1)) ELSE cs

Strip(cs) == RStrip(LStrip(cs))

PatchNameFrom97(d) ==
    IF Len(d) > PATCH_NAME_OFFSET + PATCH_NAME_LENGTH
    THEN Strip(NameChars(Slice(d, PATCH_NAME_OFFSET + 1,
                               PATCH_NAME_OFFSET + PATCH_NAME_LENGTH)))
    ELSE << >>

PatchName(d) ==
    IF Len(d) > PATCH_NAME_OFFSET + PATCH_NAME_LENGTH
    THEN Strip(NameChars(Slice(d, PATCH_NAME_OFFSET,
                               PATCH_NAME_OFFSET + PATCH_NAME_LENGTH)))
    ELSE << >>

Knob2SingleByte(d, slot_num) ==
    LET k2_pos == knob2_positions[slot_num + 1]
    IN  IF k2_pos + 1 < Len(d) THEN At(d, k2_pos) ELSE 0

Knob2(d, slot_num) ==
    LET k2_pos == knob2_positions[slot_num + 1]
    IN  IF k2_pos + 1 < Len(d)
        THEN IF slot_num \in {1, 2}
             THEN decode_14bit(At(d, k2_pos), At(d, k2_pos + 1))
             ELSE At(d, k2_pos)
        ELSE 0

\* one pass of the body of the loop over range(NUM_EFFECT_SLOTS)
ParseSlot(d, slot_num) ==
    LET slot_start == 5 + slot_num * EFFECT_SLOT_SIZE
        slot_end   == slot_start + EFFECT_SLOT_SIZE
        fits       == slot_end <= Len(d)
    IN  [ slot_num    |-> slot_num,
          effect_id   |-> IF fits /\ slot_start + 2 <= Len(d)
                          THEN BitAnd(At(d, slot_start), 127) ELSE 0,
          enabled     |-> IF fits /\ slot_start + 1 <= Len(d)
                          THEN BitAnd(At(d, slot_start + 1), 1) # 0 ELSE FALSE,
          knob_values |-> << 0, Knob2(d, slot_num), 0, 0 >>,
          raw_bytes   |-> IF fits THEN Slice(d, slot_start, slot_end) ELSE << >> ]

EffectSlotsShort(d) == [ i \in 1 .. (NUM_EFFECT_SLOTS - 1) |-> ParseSlot(d, i) ]

EffectSlots(d) == [ i \in 1 .. NUM_EFFECT_SLOTS |-> ParseSlot(d, i - 1) ]

\* the three checks at the head of parse_patch_data, in the order of the source;
\* "" when the frame passes all of them
FrameCheckCmdFirst(d) ==
    IF Len(d) < MIN_PATCH_LEN THEN "Patch data too short"
    ELSE IF At(d, 3) # PATCH_RESPONSE_CMD THEN "Unexpected command byte"
    ELSE IF Slice(d, 0, 3) # SYSEX_PREFIX THEN "Invalid header"
    ELSE ""

FrameCheck(d) ==
    IF d = << >> \/ Len(d) < MIN_PATCH_LEN THEN "Patch data too short"
    ELSE IF Slice(d, 0, 3) # SYSEX_PREFIX THEN "Invalid header"
    ELSE IF At(d, 3) # PATCH_RESPONSE_CMD THEN "Unexpected command byte"
    ELSE ""

parse_patch_data(d) ==
    IF FrameCheck(d) # "" THEN NoPatch(FrameCheck(d))
    ELSE [ kind         |-> "PatchData",
           raw_data     |-> d,
           metadata     |-> Slice(d, 4, 8),
           patch_name   |-> PatchName(d),
           effect_slots |-> EffectSlots(d) ]

-----------------------------------------------------------------------------
(* analyze_response (src/scan_commands.py) *)

\* A note is a formatted string in the source; here it is the record of what
\* the string is built from: its kind, and the values formatted into it.
CmdNote(tag, resp_cmd) ==
    [tag |-> tag, at |-> 3, bytes |-> << resp_cmd >>, runs |-> << >>]

FlagNote(i, window) ==
    [tag |-> "flags", at |-> i, bytes |-> window, runs |-> << >>]

AsciiNote(runs) ==
    [tag |-> "ascii", at |-> 0, bytes |-> << >>, runs |-> runs]

IsPrintable(b) == 32 <= b /\ b < 127

\* the note on the response command byte, if the response has one
CmdNotesSwapped(cmd, response) ==
    IF Len(response) > 3
    THEN LET resp_cmd == At(response, 3)
         IN  IF resp_cmd = cmd - 1 THEN << CmdNote("echo", resp_cmd) >>
             ELSE IF resp_cmd = cmd THEN << CmdNote("req-1", resp_cmd) >>
             ELSE << CmdNote("raw", resp_cmd) >>
    ELSE << >>

CmdNotes(cmd, response) ==
    IF Len(response) > 3
    THEN LET resp_cmd == At(response, 3)
         IN  IF resp_cmd = cmd - 1 THEN << CmdNote("req-1", resp_cmd) >>
             ELSE IF resp_cmd = cmd THEN << CmdNote("echo", resp_cmd) >>
             ELSE << CmdNote("raw", resp_cmd) >>
    ELSE << >>

\* the loop "for i in range(len(response) - 5)", from offset i on
RECURSIVE FlagLoop(_, _, _)
FlagLoop(response, i, stop) ==
    IF i >= stop THEN << >>
    ELSE LET window == Slice(response, i, i + 6)
         IN  (IF \A k \in 1 .. Len(window) : window[k] \in {0, 1}
              THEN << FlagNote(i, window) >> ELSE << >>)
             \o FlagLoop(response, i + 1, stop)

FlagNotesSkipLast(response) == FlagLoop(response, 0, Len(response) - 6)

FlagNotes(response) == FlagLoop(response, 0, Len(response) - 5)

\* ascii_chars: the (offset, byte) pairs of the printable bytes, from offset i on
RECURSIVE AsciiChars(_, _)
AsciiChars(response, i) ==
    IF i >= Len(response) THEN << >>
    ELSE (IF IsPrintable(At(response, i)) THEN << << i, At(response, i) >> >> ELSE << >>)
         \o AsciiChars(response, i + 1)

\* a finished current_run is kept when it has at least 4 characters
KeepRunMin3(runs, current_run) ==
    IF Len(current_run) >= 3 THEN Append(runs, current_run) ELSE runs

KeepRun(runs, current_run) ==
    IF Len(current_run) >= 4 THEN Append(runs, current_run) ELSE runs

\* the loop "for i, c in ascii_chars", from its k-th element on, and the
\* statement after it
RECURSIVE RunLoop(_, _, _, _, _)
RunLoop(chars, k, runs, current_run, last_i) ==
    IF k > Len(chars) THEN KeepRun(runs, current_run)
    ELSE LET i == chars[k][1]
             c == chars[k][2]
         IN  IF i = last_i + 1
             THEN RunLoop(chars, k + 1, runs, Append(current_run, c), i)
             ELSE RunLoop(chars, k + 1, KeepRun(runs, current_run), << c >>, i)

AsciiNotes(response) ==
    LET ascii_chars == AsciiChars(response, 0)
    IN  IF Len(ascii_chars) >= 4
        THEN LET runs == RunLoop(ascii_chars, 1, << >>, << >>, -2)
             IN  IF runs # << >> THEN << AsciiNote(runs) >> ELSE << >>
        ELSE << >>

analyze_response(cmd, response) ==
    IF response = << >> THEN << >>
    ELSE CmdNotes(cmd, response) \o FlagNotes(response) \o AsciiNotes(response)

-----------------------------------------------------------------------------
(* The pure functions, each applied once to an input drawn from a bounded set *)

\* the ZoomG3X as __init__ leaves it
G3xInit ==
    /\ port = FALSE
    /\ input_port = FALSE
    /\ in_edit_mode = FALSE
    /\ wire = << >>
    /\ pending = << >>
    /\ call = [op |-> "__init__", args |-> [enabled |-> FALSE, slot |-> 0,
                                            knob |-> 0, value |-> 0],
               outcome |-> "ok", returned |-> << >>, sent_before |-> 0]

\* scan_commands.main not started
ScanIdle ==
    /\ pc = "idle"
    /\ scan_start = 0
    /\ scan_end = 0
    /\ no_edit = FALSE
    /\ scan_cmd = 0
    /\ results = << >>
    /\ report = << >>
    /\ responding = << >>
    /\ log = << >>
    /\ drained = << >>
    /\ outstanding = 0
    /\ raised = ""

DecodeIdle == low = 0 /\ high = 0 /\ decoded = 0

ParseIdle == data = << >> /\ patch = NoPatch("")

AnalyzeIdle == an_cmd = 0 /\ an_response = << >> /\ notes = << >>

(* decode_14bit *)

InitDecode ==
    /\ phase = "call"
    /\ low \in 0 .. MaxByte
    /\ high \in 0 .. MaxByte
    /\ decoded = 0
    /\ ParseIdle /\ AnalyzeIdle /\ G3xInit /\ ScanIdle

Decode14bit ==
    /\ phase = "call"
    /\ decoded' = decode_14bit(low, high)
    /\ phase' = "return"
    /\ UNCHANGED << low, high, data, patch, an_cmd, an_response, notes >>
    /\ UNCHANGED g3xVars
    /\ UNCHANGED scanVars

NextDecode == Decode14bit

SpecDecode == InitDecode /\ [][NextDecode]_vars

(* parse_patch_data *)

\* the first three bytes of the frames tried: the expected prefix, and the
\* prefix with one byte changed
PrefixInputs ==
    { SYSEX_PREFIX, << 83, 0, 89 >>, << 82, 1, 89 >>, << 82, 0, 88 >> }

\* the fourth byte of the frames tried
CmdByteInputs == { PATCH_RESPONSE_CMD, CMD_GET_PATCH_DATA, 0 }

\* the lengths of the frames tried, around each length the source tests
FrameLens ==
    { 0, 2, 3, 4, MIN_PATCH_LEN - 1, MIN_PATCH_LEN,
      PATCH_NAME_OFFSET + PATCH_NAME_LENGTH, PATCH_NAME_OFFSET + PATCH_NAME_LENGTH + 1,
      MaxFrameLen }

\* the bytes after the fourth: byte i is (step * i + base) mod 256
PatternSteps == { 0, 1, 3, 85 }

PatternBases == { 0, 1, 32, 33, 65, 160, 255 }

MkFrame(n, pfx, c, step, base) ==
    [ k \in 1 .. n |->
        IF k <= 3 THEN pfx[k]
        ELSE IF k = 4 THEN c
        ELSE (step * (k - 1) + base) % 256 ]

FrameInputs ==
    { MkFrame(n, pfx, c, step, base) :
        n \in FrameLens, pfx \in PrefixInputs, c \in CmdByteInputs,
        step \in PatternSteps, base \in PatternBases }

InitParse ==
    /\ phase = "call"
    /\ data \in FrameInputs
    /\ patch = NoPatch("")
    /\ DecodeIdle /\ AnalyzeIdle /\ G3xInit /\ ScanIdle

ParsePatchData ==
    /\ phase = "call"
    /\ patch' = parse_patch_data(data)
    /\ phase' = "return"
    /\ UNCHANGED << low, high, decoded, data, an_cmd, an_response, notes >>
    /\ UNCHANGED g3xVars
    /\ UNCHANGED scanVars

NextParse == ParsePatchData

SpecParse == InitParse /\ [][NextParse]_vars

(* analyze_response *)

\* the request commands tried
CmdInputs == { 1, 2, 127 }

\* the bytes of the responses tried: two flag bytes and the last printable
\* byte; or the first printable byte and the bytes next to the printable range
RespAlphabets == { {0, 1, 126}, {31, 32, 127} }

SeqsUpTo(S, n) == UNION { [1 .. k -> S] : k \in 0 .. n }

ResponseInputs == UNION { SeqsUpTo(A, MaxRespLen) : A \in RespAlphabets }

InitAnalyze ==
    /\ phase = "call"
    /\ an_cmd \in CmdInputs
    /\ an_response \in ResponseInputs
    /\ notes = << >>
    /\ DecodeIdle /\ ParseIdle /\ G3xInit /\ ScanIdle

AnalyzeResponse ==
    /\ phase = "call"
    /\ notes' = analyze_response(an_cmd, an_response)
    /\ phase' = "return"
    /\ UNCHANGED << low, high, decoded, data, patch, an_cmd, an_response >>
    /\ UNCHANGED g3xVars
    /\ UNCHANGED scanVars

NextAnalyze == AnalyzeResponse

SpecAnalyze == InitAnalyze /\ [][NextAnalyze]_vars

-----------------------------------------------------------------------------
(* class ZoomG3X (src/g3x_midi.py) and the device at the other end of its ports *)

SysexMsg(full_msg) == [data |-> full_msg, type |-> "sysex"]

ProgramChangeMsg(program) == [data |-> << program >>, type |-> "program_change"]

\* mido.Message(...) raises ValueError unless every data byte is in 0..127
IsDataByte(b) == b \in 0 .. 127

DataBytesOk(bs) == \A k \in 1 .. Len(bs) : IsDataByte(bs[k])

\* the loop over input_port.iter_pending(): response is the data of the last
\* sysex message, [] when there is none
RECURSIVE LastSysexData(_)
LastSysexData(msgs) ==
    IF msgs = << >> THEN << >>
    ELSE IF msgs[Len(msgs)].type = "sysex" THEN msgs[Len(msgs)].data
    ELSE LastSysexData(SubSeq(msgs, 1, Len(msgs) - 1))

\* _send_sysex(d): what it leaves on the wire and in the input port, what it
\* returns (<< >> for None), and whether it returned or raised.  The sleep
\* between the send and the drain is not a step of its own: a message that
\* arrives during it is one that DeviceSend put in the input port before.
SendSysex(d) ==
    IF ~port
    THEN [wire |-> wire, pending |-> pending, outcome |-> "not_connected",
          response |-> << >>]
    ELSE IF ~DataBytesOk(SYSEX_PREFIX \o d)
    THEN [wire |-> wire, pending |-> pending, outcome |-> "ValueError",
          response |-> << >>]
    ELSE [wire     |-> Append(wire, SysexMsg(SYSEX_PREFIX \o d)),
          pending  |-> IF input_port THEN << >> ELSE pending,
          outcome  |-> "sent",
          response |-> IF input_port THEN LastSysexData(pending) ELSE << >>]

\* _send_program_change(program): the wire it leaves, and how it ended
SendProgramChange(program) ==
    IF ~port THEN [wire |-> wire, outcome |-> "not_connected"]
    ELSE IF ~IsDataByte(program) THEN [wire |-> wire, outcome |-> "ValueError"]
    ELSE [wire |-> Append(wire, ProgramChangeMsg(program)), outcome |-> "sent"]

\* the arguments of a call; a method leaves those it does not take at the
\* values given here
NoArgs == [enabled |-> FALSE, slot |-> 0, knob |-> 0, value |-> 0]

SlotArgs(slot, enabled, knob, value) ==
    [enabled |-> enabled, slot |-> slot, knob |-> knob, value |-> value]

\* the record of a call: the method, its arguments, how it ended ("sent",
\* "not_connected", "invalid" for a rejected argument, "ValueError" when it
\* raised), the value it returned (<< >> for None), and how many messages
\* the transport had been handed when it began
Call(op, args, outcome, returned) ==
    [op |-> op, args |-> args, outcome |-> outcome, returned |-> returned,
     sent_before |-> Len(wire)]

(* Inputs *)

\* (slot, enabled) given to set_effect_enabled
EnabledInputs ==
    { << -1, TRUE >>, << 6, FALSE >>, << 0, TRUE >>, << 0, FALSE >>,
      << 3, TRUE >>, << 5, FALSE >> }

\* (slot, effect_id) given to set_effect_type
TypeInputs ==
    { << -1, 2 >>, << 6, 128 >>, << 0, 2 >>, << 5, 127 >>, << 5, 128 >> }

\* (slot, knob, value) given to set_knob_value
KnobInputs ==
    { << -1, 1, 0 >>, << 6, 4, 128 >>, << 0, 1, 0 >>, << 5, 4, 127 >>,
      << 3, 126, 64 >>, << 5, 1, 128 >>, << 0, 127, 0 >> }

\* patch_num given to change_patch
PatchInputs == { -1, 0, 99, 100 }

\* what the device may send: a patch dump, a short reply, and a message that
\* is not a sysex
InboundInputs ==
    { SysexMsg(MkFrame(MIN_PATCH_LEN, SYSEX_PREFIX, PATCH_RESPONSE_CMD, 1, 0)),
      SysexMsg(<< 82, 0, 89, 50, 1 >>),
      [data |-> << 7, 100 >>, type |-> "control_change"] }

ConnectOutcomes ==
    { "no_port", "open_output_fails", "open_input_fails", "no_matching_input",
      "both_open" }

(* Methods *)

\* connect(): how opening the ports went decides what is assigned
Connect(how) ==
    /\ port' = IF how \in {"no_port", "open_output_fails"} THEN port ELSE TRUE
    /\ input_port' = IF how = "both_open" THEN TRUE ELSE input_port
    /\ pending' = IF how = "both_open" THEN << >> ELSE pending
    /\ call' = Call("connect", NoArgs, how,
                    IF how \in {"no_matching_input", "both_open"}
                    THEN << TRUE >> ELSE << FALSE >>)
    /\ UNCHANGED << in_edit_mode, wire >>
    /\ UNCHANGED fnVars
    /\ UNCHANGED scanVars

EnterEditMode ==
    LET r == SendSysex(<< CMD_ENTER_EDIT >>)
    IN  /\ Len(r.wire) <= MaxWire
        /\ wire' = r.wire
        /\ pending' = r.pending
        /\ in_edit_mode' = TRUE
        /\ call' = Call("enter_edit_mode", NoArgs, r.outcome, << TRUE >>)
        /\ UNCHANGED << port, input_port >>
        /\ UNCHANGED fnVars
        /\ UNCHANGED scanVars

ExitEditMode ==
    LET r == SendSysex(<< CMD_EXIT_EDIT >>)
    IN  /\ Len(r.wire) <= MaxWire
        /\ wire' = r.wire
        /\ pending' = r.pending
        /\ in_edit_mode' = FALSE
        /\ call' = Call("exit_edit_mode", NoArgs, r.outcome, << TRUE >>)
        /\ UNCHANGED << port, input_port >>
        /\ UNCHANGED fnVars
        /\ UNCHANGED scanVars

\* disconnect(): exit_edit_mode() when in edit mode, then both ports closed
Disconnect ==
    LET r == IF in_edit_mode THEN SendSysex(<< CMD_EXIT_EDIT >>)
             ELSE [wire |-> wire, pending |-> pending, outcome |-> "ok",
                   response |-> << >>]
    IN  /\ Len(r.wire) <= MaxWire
        /\ wire' = r.wire
        /\ in_edit_mode' = FALSE
        /\ port' = FALSE
        /\ input_port' = FALSE
        /\ pending' = << >>
        /\ call' = Call("disconnect", NoArgs, r.outcome, << >>)
        /\ UNCHANGED fnVars
        /\ UNCHANGED scanVars

\* get_current_patch_data() and get_current_program(): one request, whose
\* response is returned
Query(op, cmd) ==
    LET r == SendSysex(<< cmd >>)
    IN  /\ Len(r.wire) <= MaxWire
        /\ wire' = r.wire
        /\ pending' = r.pending
        /\ call' = Call(op, NoArgs, r.outcome, r.response)
        /\ UNCHANGED << port, input_port, in_edit_mode >>
        /\ UNCHANGED fnVars
        /\ UNCHANGED scanVars

GetCurrentPatchData == Query("get_current_patch_data", CMD_GET_PATCH_DATA)

GetCurrentProgram == Query("get_current_program", CMD_GET_PROGRAM_NUM)

\* get_patch_info(): get_current_patch_data(), and parse_patch_data on a
\* response that is not None
GetPatchInfo ==
    LET r == SendSysex(<< CMD_GET_PATCH_DATA >>)
        parsed == IF r.response # << >> THEN parse_patch_data(r.response)
                  ELSE NoPatch("")
    IN  /\ Len(r.wire) <= MaxWire
        /\ wire' = r.wire
        /\ pending' = r.pending
        /\ call' = Call("get_patch_info", NoArgs, r.outcome,
                        IF parsed.kind = "PatchData" THEN parsed.raw_data ELSE << >>)
        /\ UNCHANGED << port, input_port, in_edit_mode >>
        /\ UNCHANGED fnVars
        /\ UNCHANGED scanVars

ChangePatchNoCheck(patch_num) ==
    LET r == SendProgramChange(patch_num)
    IN  /\ Len(r.wire) <= MaxWire
        /\ wire' = r.wire
        /\ call' = Call("change_patch", SlotArgs(0, FALSE, 0, patch_num), r.outcome, << >>)
        /\ UNCHANGED << port, input_port, in_edit_mode, pending >>
        /\ UNCHANGED fnVars
        /\ UNCHANGED scanVars

ChangePatch(patch_num) ==
    IF patch_num < 0 \/ patch_num > 99
    THEN /\ call' = Call("change_patch", SlotArgs(0, FALSE, 0, patch_num), "invalid", << >>)
         /\ UNCHANGED << port, input_port, in_edit_mode, wire, pending >>
         /\ UNCHANGED fnVars
         /\ UNCHANGED scanVars
    ELSE LET r == SendProgramChange(patch_num)
         IN  /\ Len(r.wire) <= MaxWire
             /\ wire' = r.wire
             /\ call' = Call("change_patch", SlotArgs(0, FALSE, 0, patch_num), r.outcome, << >>)
             /\ UNCHANGED << port, input_port, in_edit_mode, pending >>
             /\ UNCHANGED fnVars
             /\ UNCHANGED scanVars

\* the common shape of the three setters: the slot check, then one _send_sysex
\* whose response is dropped
ModifyEffectNoCheck(op, args, payload) ==
    LET r == SendSysex(payload)
    IN  /\ Len(r.wire) <= MaxWire
        /\ wire' = r.wire
        /\ pending' = r.pending
        /\ call' = Call(op, args, r.outcome, << >>)
        /\ UNCHANGED << port, input_port, in_edit_mode >>
        /\ UNCHANGED fnVars
        /\ UNCHANGED scanVars

ModifyEffect(op, args, payload) ==
    IF args.slot < 0 \/ args.slot > 5
    THEN /\ call' = Call(op, args, "invalid", << >>)
         /\ UNCHANGED << port, input_port, in_edit_mode, wire, pending >>
         /\ UNCHANGED fnVars
         /\ UNCHANGED scanVars
    ELSE LET r == SendSysex(payload)
         IN  /\ Len(r.wire) <= MaxWire
             /\ wire' = r.wire
             /\ pending' = r.pending
             /\ call' = Call(op, args, r.outcome, << >>)
             /\ UNCHANGED << port, input_port, in_edit_mode >>
             /\ UNCHANGED fnVars
             /\ UNCHANGED scanVars

EnabledPayloadNoTrailer(slot, enabled) ==
    << CMD_MODIFY_EFFECT, slot, SUBCMD_ON_OFF, IF enabled THEN 1 ELSE 0 >>

EnabledPayload(slot, enabled) ==
    << CMD_MODIFY_EFFECT, slot, SUBCMD_ON_OFF, IF enabled THEN 1 ELSE 0, 0 >>

SetEffectEnabled(slot, enabled) ==
    ModifyEffect("set_effect_enabled", SlotArgs(slot, enabled, 0, 0),
                 EnabledPayload(slot, enabled))

SetEffectType(slot, effect_id) ==
    ModifyEffect("set_effect_type", SlotArgs(slot, FALSE, 0, effect_id),
                 << CMD_MODIFY_EFFECT, slot, SUBCMD_EFFECT_TYPE, effect_id, 0 >>)

KnobPayloadBase2(slot, knob, value) ==
    << CMD_MODIFY_EFFECT, slot, 0, knob + 2, value, 0 >>

KnobPayload(slot, knob, value) ==
    LET knob_cmd == knob + 1
    IN  << CMD_MODIFY_EFFECT, slot, 0, knob_cmd, value, 0 >>

SetKnobValue(slot, knob, value) ==
    ModifyEffect("set_knob_value", SlotArgs(slot, FALSE, knob, value),
                 KnobPayload(slot, knob, value))

\* (method, payload) of the calls in which a KeyboardInterrupt is tried
InterruptedInputs ==
    { << "enter_edit_mode", << CMD_ENTER_EDIT >> >>,
      << "exit_edit_mode", << CMD_EXIT_EDIT >> >>,
      << "get_current_patch_data", << CMD_GET_PATCH_DATA >> >> }

\* KeyboardInterrupt in the time.sleep(0.1) of _send_sysex(d), called by
\* method op: the message has been sent, the input port is not drained, and
\* no statement after the call of _send_sysex runs
InterruptedSend(op, d) ==
    /\ port
    /\ input_port
    /\ Len(wire) + 1 <= MaxWire
    /\ wire' = Append(wire, SysexMsg(SYSEX_PREFIX \o d))
    /\ call' = Call(op, NoArgs, "KeyboardInterrupt", << >>)
    /\ UNCHANGED << port, input_port, in_edit_mode, pending >>
    /\ UNCHANGED fnVars
    /\ UNCHANGED scanVars

\* the device sends a message, which waits in the open input port
DeviceSend(m) ==
    /\ input_port
    /\ Len(pending) < MaxPending
    /\ pending' = Append(pending, m)
    /\ UNCHANGED << port, input_port, in_edit_mode, wire, call >>
    /\ UNCHANGED fnVars
    /\ UNCHANGED scanVars

Init ==
    /\ phase = "idle"
    /\ DecodeIdle /\ ParseIdle /\ AnalyzeIdle
    /\ G3xInit /\ ScanIdle

Next ==
    \/ \E how \in ConnectOutcomes : Connect(how)
    \/ Disconnect
    \/ EnterEditMode
    \/ ExitEditMode
    \/ GetCurrentPatchData
    \/ GetPatchInfo
    \/ GetCurrentProgram
    \/ \E n \in PatchInputs : ChangePatch(n)
    \/ \E i \in EnabledInputs : SetEffectEnabled(i[1], i[2])
    \/ \E i \in TypeInputs : SetEffectType(i[1], i[2])
    \/ \E i \in KnobInputs : SetKnobValue(i[1], i[2], i[3])
    \/ \E i \in InterruptedInputs : InterruptedSend(i[1], i[2])
    \/ \E m \in InboundInputs : DeviceSend(m)

Spec == Init /\ [][Next]_vars

-----------------------------------------------------------------------------
(* The command scanner (src/scan_commands.py): send_sysex, scan_commands and *)
(* main, from the point where both ports are open.  send_sysex is two steps, *)
(* the send and the drain, with the sleep between them: the device may send  *)
(* and a KeyboardInterrupt may be raised while main sleeps.                  *)

\* the loop over input_port.iter_pending() of send_sysex: the data of every
\* sysex message, in the order of arrival
RECURSIVE SysexResponsesAnyType(_)
SysexResponsesAnyType(msgs) ==
    IF msgs = << >> THEN << >>
    ELSE << Head(msgs).data >> \o SysexResponsesAnyType(Tail(msgs))

RECURSIVE SysexResponses(_)
SysexResponses(msgs) ==
    IF msgs = << >> THEN << >>
    ELSE IF Head(msgs).type = "sysex"
         THEN << Head(msgs).data >> \o SysexResponses(Tail(msgs))
         ELSE SysexResponses(Tail(msgs))

\* the dict that scan_commands appends for a probe
Result(c, responses) ==
    [cmd |-> c, tx |-> SYSEX_PREFIX \o << c >>, responses |-> responses]

\* responding = [r for r in results if r['responses']]
Responding(rs) == SelectSeq(rs, LAMBDA r : r.responses # << >>)

\* (args.start, args.end) tried
ScanRanges ==
    { << 0, 1 >>, << 41, 41 >>, << 80, 80 >>, << 127, 128 >>, << 1, 0 >>, << 3, 1 >> }

\* what the device may send during a scan: two replies and a message that is
\* not a sysex
ScanInboundInputs ==
    { SysexMsg(<< 82, 0, 89, 40, 1 >>),
      SysexMsg(<< 82, 0, 89, 50, 1 >>),
      [data |-> << 7, 100 >>, type |-> "control_change"] }

\* where a KeyboardInterrupt is caught by the try statement of main, and
\* where it is raised inside the finally clause
TryRegion == { "try", "enter_sleep", "settle", "scan", "probe_sleep", "summary" }

FinallyRegion == { "finally", "exit_sleep", "close" }

InitScan ==
    /\ phase = "idle"
    /\ DecodeIdle /\ ParseIdle /\ AnalyzeIdle
    /\ port = TRUE
    /\ input_port = TRUE
    /\ in_edit_mode = FALSE
    /\ wire = << >>
    /\ pending = << >>
    /\ call = [op |-> "__init__", args |-> NoArgs, outcome |-> "ok",
               returned |-> << >>, sent_before |-> 0]
    /\ pc = "try"
    /\ \E r \in ScanRanges : scan_start = r[1] /\ scan_end = r[2]
    /\ no_edit \in BOOLEAN
    /\ scan_cmd = 0
    /\ results = << >>
    /\ report = << >>
    /\ responding = << >>
    /\ log = << >>
    /\ drained = << >>
    /\ outstanding = 0
    /\ raised = ""

\* main: send_sysex(output_port, input_port, [0x50]) up to its sleep, unless
\* --no-edit; without it scan_commands is called at once
EnterEdit ==
    /\ pc = "try"
    /\ IF no_edit
       THEN /\ pc' = "scan"
            /\ scan_cmd' = scan_start
            /\ UNCHANGED << wire, outstanding >>
       ELSE /\ wire' = Append(wire, SysexMsg(SYSEX_PREFIX \o << CMD_ENTER_EDIT >>))
            /\ outstanding' = outstanding + 1
            /\ pc' = "enter_sleep"
            /\ UNCHANGED scan_cmd
    /\ UNCHANGED << port, input_port, in_edit_mode, pending, call >>
    /\ UNCHANGED << scan_start, scan_end, no_edit, results, report, responding,
                    log, drained, raised >>
    /\ UNCHANGED fnVars

\* the drain of that send_sysex, whose responses main drops
EnterDrainSkipped ==
    /\ pc = "enter_sleep"
    /\ pc' = "settle"
    /\ UNCHANGED g3xVars
    /\ UNCHANGED << scan_start, scan_end, no_edit, scan_cmd, results, report,
                    responding, log, drained, outstanding, raised >>
    /\ UNCHANGED fnVars

EnterDrain ==
    /\ pc = "enter_sleep"
    /\ pending' = << >>
    /\ outstanding' = 0
    /\ pc' = "settle"
    /\ UNCHANGED << port, input_port, in_edit_mode, wire, call >>
    /\ UNCHANGED << scan_start, scan_end, no_edit, scan_cmd, results, report,
                    responding, log, drained, raised >>
    /\ UNCHANGED fnVars

\* time.sleep(0.2), then scan_commands is called
Settle ==
    /\ pc = "settle"
    /\ pc' = "scan"
    /\ scan_cmd' = scan_start
    /\ UNCHANGED g3xVars
    /\ UNCHANGED << scan_start, scan_end, no_edit, results, report, responding,
                    log, drained, outstanding, raised >>
    /\ UNCHANGED fnVars

\* scan_commands, one pass of its loop up to the sleep of send_sysex: the
\* message is built, which raises ValueError for a cmd that is no data byte,
\* and sent
ProbeSend ==
    /\ pc = "scan"
    /\ scan_cmd <= scan_end
    /\ IF DataBytesOk(SYSEX_PREFIX \o << scan_cmd >>)
       THEN /\ wire' = Append(wire, SysexMsg(SYSEX_PREFIX \o << scan_cmd >>))
            /\ outstanding' = outstanding + 1
            /\ pc' = "probe_sleep"
            /\ UNCHANGED << results, raised >>
       ELSE /\ raised' = "ValueError"
            /\ results' = << >>
            /\ pc' = "finally"
            /\ UNCHANGED << wire, outstanding >>
    /\ UNCHANGED << port, input_port, in_edit_mode, pending, call >>
    /\ UNCHANGED << scan_start, scan_end, no_edit, scan_cmd, report, responding,
                    log, drained >>
    /\ UNCHANGED fnVars

\* the rest of that pass: the drain of send_sysex, the entry appended to
\* results, its lines written to log_file and flushed
ProbeDrainLogsResponders ==
    /\ pc = "probe_sleep"
    /\ LET result == Result(scan_cmd, SysexResponses(pending))
       IN  /\ results' = Append(results, result)
           /\ log' = IF result.responses # << >> THEN Append(log, result) ELSE log
    /\ drained' = Append(drained, pending)
    /\ pending' = << >>
    /\ outstanding' = 0
    /\ scan_cmd' = scan_cmd + 1
    /\ pc' = "scan"
    /\ UNCHANGED << port, input_port, in_edit_mode, wire, call >>
    /\ UNCHANGED << scan_start, scan_end, no_edit, report, responding, raised >>
    /\ UNCHANGED fnVars

ProbeDrain ==
    /\ pc = "probe_sleep"
    /\ LET result == Result(scan_cmd, SysexResponses(pending))
       IN  /\ results' = Append(results, result)
           /\ log' = Append(log, result)
    /\ drained' = Append(drained, pending)
    /\ pending' = << >>
    /\ outstanding' = 0
    /\ scan_cmd' = scan_cmd + 1
    /\ pc' = "scan"
    /\ UNCHANGED << port, input_port, in_edit_mode, wire, call >>
    /\ UNCHANGED << scan_start, scan_end, no_edit, report, responding, raised >>
    /\ UNCHANGED fnVars

\* the loop is over: scan_commands returns results to main
ScanReturnEarly ==
    /\ pc = "scan"
    /\ scan_cmd >= scan_end
    /\ report' = results
    /\ pc' = "summary"
    /\ UNCHANGED g3xVars
    /\ UNCHANGED << scan_start, scan_end, no_edit, scan_cmd, results, responding,
                    log, drained, outstanding, raised >>
    /\ UNCHANGED fnVars

ScanReturn ==
    /\ pc = "scan"
    /\ scan_cmd > scan_end
    /\ report' = results
    /\ pc' = "summary"
    /\ UNCHANGED g3xVars
    /\ UNCHANGED << scan_start, scan_end, no_edit, scan_cmd, results, responding,
                    log, drained, outstanding, raised >>
    /\ UNCHANGED fnVars

\* main: the summary
Summary ==
    /\ pc = "summary"
    /\ responding' = Responding(report)
    /\ pc' = "finally"
    /\ UNCHANGED g3xVars
    /\ UNCHANGED << scan_start, scan_end, no_edit, scan_cmd, results, report,
                    log, drained, outstanding, raised >>
    /\ UNCHANGED fnVars

\* the finally clause: send_sysex(output_port, input_port, [0x51]) up to its
\* sleep, unless --no-edit
ExitEdit ==
    /\ pc = "finally"
    /\ IF no_edit
       THEN /\ pc' = "close"
            /\ UNCHANGED << wire, outstanding >>
       ELSE /\ wire' = Append(wire, SysexMsg(SYSEX_PREFIX \o << CMD_EXIT_EDIT >>))
            /\ outstanding' = outstanding + 1
            /\ pc' = "exit_sleep"
    /\ UNCHANGED << port, input_port, in_edit_mode, pending, call >>
    /\ UNCHANGED << scan_start, scan_end, no_edit, scan_cmd, results, report,
                    responding, log, drained, raised >>
    /\ UNCHANGED fnVars

ExitDrain ==
    /\ pc = "exit_sleep"
    /\ pending' = << >>
    /\ outstanding' = 0
    /\ pc' = "close"
    /\ UNCHANGED << port, input_port, in_edit_mode, wire, call >>
    /\ UNCHANGED << scan_start, scan_end, no_edit, scan_cmd, results, report,
                    responding, log, drained, raised >>
    /\ UNCHANGED fnVars

\* output_port.close(); input_port.close(); an exception raised in the try
\* statement then leaves main
Close ==
    /\ pc = "close"
    /\ port' = FALSE
    /\ input_port' = FALSE
    /\ pending' = << >>
    /\ pc' = "exited"
    /\ UNCHANGED << in_edit_mode, wire, call >>
    /\ UNCHANGED << scan_start, scan_end, no_edit, scan_cmd, results, report,
                    responding, log, drained, outstanding, raised >>
    /\ UNCHANGED fnVars

\* KeyboardInterrupt inside the try statement: control goes to the finally
\* clause, and the list of a scan_commands that was running is gone
Interrupt ==
    /\ pc \in TryRegion
    /\ raised' = "KeyboardInterrupt"
    /\ results' = << >>
    /\ pc' = "finally"
    /\ UNCHANGED g3xVars
    /\ UNCHANGED << scan_start, scan_end, no_edit, scan_cmd, report, responding,
                    log, drained, outstanding >>
    /\ UNCHANGED fnVars

\* KeyboardInterrupt inside the finally clause: the rest of it does not run,
\* and the ports go with the process
InterruptCleanup ==
    /\ pc \in FinallyRegion
    /\ raised' = "KeyboardInterrupt"
    /\ pc' = "killed"
    /\ port' = FALSE
    /\ input_port' = FALSE
    /\ pending' = << >>
    /\ UNCHANGED << in_edit_mode, wire, call >>
    /\ UNCHANGED << scan_start, scan_end, no_edit, scan_cmd, results, report,
                    responding, log, drained, outstanding >>
    /\ UNCHANGED fnVars

NextScan ==
    \/ EnterEdit
    \/ EnterDrain
    \/ Settle
    \/ ProbeSend
    \/ ProbeDrain
    \/ ScanReturn
    \/ Summary
    \/ ExitEdit
    \/ ExitDrain
    \/ Close
    \/ Interrupt
    \/ InterruptCleanup
    \/ \E m \in ScanInboundInputs : DeviceSend(m)

SpecScan == InitScan /\ [][NextScan]_vars

-----------------------------------------------------------------------------
(* Properties of the ZoomG3X methods, checked under Spec *)

Setters == { "set_effect_enabled", "set_effect_type", "set_knob_value" }

\* the messages the last call handed to the transport
SentByCall == SubSeq(wire, call.sent_before + 1, Len(wire))

\* C3: with a slot outside 0..5, set_effect_enabled, set_effect_type and
\* set_knob_value are rejected before any transport I/O, in every state of the
\* controller: the step of such a call leaves the messages sent and
\* in_edit_mode as they were.
C3_BadSlotSendsNothing ==
    [][ (call'.op \in Setters /\ call'.args.slot \notin 0 .. 5) =>
            /\ call'.outcome = "invalid"
            /\ wire' = wire
            /\ in_edit_mode' = in_edit_mode
            /\ pending' \in { pending } \cup { Append(pending, m) : m \in InboundInputs }
      ]_vars

\* a setter rejected on a connected controller that is in edit mode
C3_Witness ==
    /\ call.op = "set_knob_value"
    /\ call.args.slot = 6
    /\ call.outcome = "invalid"
    /\ port /\ input_port /\ in_edit_mode
    /\ wire # << >>
    /\ pending # << >>

\* C4: on a connected controller set_effect_enabled(slot, enabled) with slot in
\* 0..5 sends exactly one frame: 0x52,0x00,0x59 followed by
\* 0x31, slot, 0x00, 1 if enabled else 0, 0.
C4_EnabledFrame ==
    (call.op = "set_effect_enabled" /\ call.args.slot \in 0 .. 5 /\ port) =>
        SentByCall =
            << [data |-> << 82, 0, 89, 49, call.args.slot, 0,
                            IF call.args.enabled THEN 1 ELSE 0, 0 >>,
                type |-> "sysex"] >>

C4_Witness ==
    /\ call.op = "set_effect_enabled"
    /\ call.args.slot = 3 /\ call.args.enabled
    /\ port
    /\ wire = << [data |-> << 82, 0, 89, 49, 3, 0, 1, 0 >>, type |-> "sysex"] >>

\* C5 as stated: on a connected controller set_knob_value(slot, knob, value)
\* with slot in 0..5 sends exactly one frame with payload
\* 0x31, slot, 0, knob + 1, value, 0, for every knob and every value.
C5_KnobFrameAnyValue ==
    (call.op = "set_knob_value" /\ call.args.slot \in 0 .. 5 /\ port) =>
        SentByCall =
            << [data |-> << 82, 0, 89, 49, call.args.slot, 0,
                            call.args.knob + 1, call.args.value, 0 >>,
                type |-> "sysex"] >>

\* C5 as amended: that frame is sent, with the value unchanged, when knob + 1
\* and value are data bytes (0..127); when either is not, building the message
\* raises ValueError and nothing is sent.
C5_KnobFrameDataBytes ==
    (call.op = "set_knob_value" /\ call.args.slot \in 0 .. 5 /\ port) =>
        IF call.args.knob + 1 \in 0 .. 127 /\ call.args.value \in 0 .. 127
        THEN SentByCall =
               << [data |-> << 82, 0, 89, 49, call.args.slot, 0,
                               call.args.knob + 1, call.args.value, 0 >>,
                   type |-> "sysex"] >>
        ELSE SentByCall = << >> /\ call.outcome = "ValueError"

C5_Witness ==
    /\ call.op = "set_knob_value"
    /\ call.args.slot = 5 /\ call.args.knob = 4 /\ call.args.value = 127
    /\ port
    /\ wire = << [data |-> << 82, 0, 89, 49, 5, 0, 5, 127, 0 >>, type |-> "sysex"] >>

\* C6 as stated: change_patch(n) sends exactly one program-change message with
\* program n, and no sysex frame, when n is in 0..99; for any other n it sends
\* nothing.
C6_ProgramChangeAlways ==
    call.op = "change_patch" =>
        IF call.args.value \in 0 .. 99
        THEN SentByCall =
               << [data |-> << call.args.value >>, type |-> "program_change"] >>
        ELSE SentByCall = << >>

\* C6 as amended: the same, for a connected controller.
C6_ProgramChangeConnected ==
    (call.op = "change_patch" /\ port) =>
        IF call.args.value \in 0 .. 99
        THEN SentByCall =
               << [data |-> << call.args.value >>, type |-> "program_change"] >>
        ELSE SentByCall = << >> /\ call.outcome = "invalid"

C6_Witness ==
    /\ call.op = "change_patch"
    /\ call.args.value = 99
    /\ port
    /\ wire = << [data |-> << 99 >>, type |-> "program_change"] >>

-----------------------------------------------------------------------------
(* Properties of parse_patch_data, checked under SpecParse *)

\* the frame passes the three checks, stated on the bytes
ValidFrame ==
    /\ Len(data) >= 100
    /\ data[1] = 82 /\ data[2] = 0 /\ data[3] = 89
    /\ data[4] = 40

\* C1: a frame of length >= 100 that starts 0x52,0x00,0x59,0x28 decodes to a
\* snapshot with exactly 6 effect slots, and the slot at position i (0..5) has
\* slot_num = i, whatever the other bytes are.
C1_SixSlotsInOrder ==
    (phase = "return" /\ ValidFrame) =>
        /\ patch.kind = "PatchData"
        /\ Len(patch.effect_slots) = 6
        /\ \A i \in 0 .. 5 : patch.effect_slots[i + 1].slot_num = i

C1_Witness ==
    /\ phase = "return" /\ ValidFrame
    /\ Len(data) = MaxFrameLen
    /\ data[6] # data[7]
    /\ patch.kind = "PatchData"
    /\ patch.effect_slots[6].slot_num = 5

\* C2: the checks are applied in the order length >= 100, prefix, fourth byte;
\* the first one that fails decides the outcome, which names that check and is
\* never a snapshot.
C2_FirstFailingCheckDecides ==
    phase = "return" =>
        LET prefixOk == data[1] = 82 /\ data[2] = 0 /\ data[3] = 89
        IN  /\ Len(data) < 100 =>
                patch = [kind |-> "None", printed |-> "Patch data too short"]
            /\ (Len(data) >= 100 /\ ~prefixOk) =>
                patch = [kind |-> "None", printed |-> "Invalid header"]
            /\ (Len(data) >= 100 /\ prefixOk /\ data[4] # 40) =>
                patch = [kind |-> "None", printed |-> "Unexpected command byte"]

\* a frame that fails both the prefix check and the command check
C2_Witness ==
    /\ phase = "return"
    /\ Len(data) >= 100
    /\ data[1] # 82 /\ data[4] # 40
    /\ patch = [kind |-> "None", printed |-> "Invalid header"]

-----------------------------------------------------------------------------
(* Properties of decode_14bit, checked under SpecDecode *)

\* C7: for low, high in 0..255 decode_14bit returns the low 7 bits of low plus
\* 128 times the low 7 bits of high: a value in 0..16383 that depends on
\* nothing else.
C7_Decode14Masks ==
    phase = "return" =>
        /\ decoded = (low % 128) + 128 * (high % 128)
        /\ decoded \in 0 .. 16383

C7_Witness ==
    phase = "return" /\ low = 255 /\ high = 129 /\ decoded = 255

-----------------------------------------------------------------------------
(* Properties of analyze_response, checked under SpecAnalyze *)

NotesTagged(tags) == SelectSeq(notes, LAMBDA n : n.tag \in tags)

\* C8: for a response of at least 4 bytes there is exactly one note on the
\* command byte: "req-1" when response[3] = cmd - 1, "echo" when
\* response[3] = cmd, the raw value otherwise; an empty response gives no note.
C8_OneCommandNote ==
    phase = "return" =>
        /\ an_response = << >> => notes = << >>
        /\ Len(an_response) >= 4 =>
            LET cmdNotes == NotesTagged({"req-1", "echo", "raw"})
                resp_cmd == an_response[4]
            IN  /\ Len(cmdNotes) = 1
                /\ cmdNotes[1].bytes = << resp_cmd >>
                /\ cmdNotes[1].tag =
                     IF resp_cmd = an_cmd - 1 THEN "req-1"
                     ELSE IF resp_cmd = an_cmd THEN "echo"
                     ELSE "raw"

C8_Witness ==
    /\ phase = "return"
    /\ Len(an_response) = MaxRespLen
    /\ an_response[4] = an_cmd - 1
    /\ notes[1].tag = "req-1"
    /\ Len(notes) > 1

IsFlag(b) == b = 0 \/ b = 1

\* the offsets i at which response[i..i+5] are six flag bytes
FlagOffsets ==
    { i \in 0 .. Len(an_response) - 6 :
        \A j \in i .. i + 5 : IsFlag(an_response[j + 1]) }

\* the maximal runs of flag bytes, as <<first offset, last offset>>
MaximalFlagRuns ==
    { r \in (0 .. Len(an_response) - 1) \X (0 .. Len(an_response) - 1) :
        /\ r[1] <= r[2]
        /\ \A j \in r[1] .. r[2] : IsFlag(an_response[j + 1])
        /\ r[1] = 0 \/ ~IsFlag(an_response[r[1]])
        /\ r[2] = Len(an_response) - 1 \/ ~IsFlag(an_response[r[2] + 2]) }

\* C9: there is one flag-run note for every offset i at which the six bytes
\* response[i..i+5] are all 0 or 1, and for no other offset; the notes come in
\* increasing offset order, so a maximal run of n >= 6 such bytes gives n - 5.
C9_FlagRunPerWindow ==
    phase = "return" =>
        LET flagNotes == NotesTagged({"flags"})
        IN  /\ Len(flagNotes) = Cardinality(FlagOffsets)
            /\ \A k \in 1 .. Len(flagNotes) :
                 /\ flagNotes[k].at \in FlagOffsets
                 /\ flagNotes[k].bytes =
                      SubSeq(an_response, flagNotes[k].at + 1, flagNotes[k].at + 6)
                 /\ k < Len(flagNotes) => flagNotes[k].at < flagNotes[k + 1].at
            /\ \A r \in MaximalFlagRuns :
                 r[2] - r[1] + 1 >= 6 =>
                   Cardinality({ k \in 1 .. Len(flagNotes) :
                                   flagNotes[k].at \in r[1] .. r[2] })
                     = (r[2] - r[1] + 1) - 5

\* a maximal run of 8 flag bytes after one other byte: 3 overlapping windows
C9_Witness ==
    /\ phase = "return"
    /\ Len(an_response) = 9
    /\ ~IsFlag(an_response[1])
    /\ << 1, 8 >> \in MaximalFlagRuns
    /\ Len(NotesTagged({"flags"})) = 3

\* the maximal runs of printable bytes of length >= 4, as <<first, last>> offsets
LongAsciiRuns ==
    { r \in (0 .. Len(an_response) - 1) \X (0 .. Len(an_response) - 1) :
        /\ r[2] - r[1] + 1 >= 4
        /\ \A j \in r[1] .. r[2] : an_response[j + 1] \in 32 .. 126
        /\ r[1] = 0 \/ an_response[r[1]] \notin 32 .. 126
        /\ r[2] = Len(an_response) - 1 \/ an_response[r[2] + 2] \notin 32 .. 126 }

\* C10 as stated: one ASCII-run note per maximal printable run of length >= 4,
\* so two such runs give two notes.
C10_OneNotePerRun ==
    phase = "return" =>
        Len(NotesTagged({"ascii"})) = Cardinality(LongAsciiRuns)

\* C10 as amended: there is a single ASCII note exactly when the response has a
\* maximal printable run of length >= 4, and that one note lists every such
\* run, and no shorter run, in offset order.
C10_OneNoteListsRuns ==
    phase = "return" =>
        LET asciiNotes == NotesTagged({"ascii"})
        IN  /\ Len(asciiNotes) = IF LongAsciiRuns = {} THEN 0 ELSE 1
            /\ \A k \in 1 .. Len(asciiNotes) :
                 /\ Len(asciiNotes[k].runs) = Cardinality(LongAsciiRuns)
                 /\ \A r \in LongAsciiRuns :
                      asciiNotes[k].runs[1 + Cardinality({ q \in LongAsciiRuns : q[1] < r[1] })]
                        = SubSeq(an_response, r[1] + 1, r[2] + 1)

\* two printable runs of length 4 with one other byte between them
C10_Witness ==
    /\ phase = "return"
    /\ LongAsciiRuns = { << 0, 3 >>, << 5, 8 >> }
    /\ Len(NotesTagged({"ascii"})) = 1
    /\ Len(NotesTagged({"ascii"})[1].runs) = 2

-----------------------------------------------------------------------------
(* Claims about the command scanner, checked under SpecScan *)

\* scan_commands has returned and main has computed its summary
Summarised ==
    /\ raised = ""
    /\ pc \in { "finally", "exit_sleep", "close", "exited" }

\* the drain of probe i took no sysex message out of the input port
NoFrameDrained(i) ==
    \A k \in 1 .. Len(drained[i]) : drained[i][k].type # "sysex"

\* C11: when no drain of a scan returned a sysex frame, every entry of the
\* report has an empty response list and the responding subset is empty.
C11_SilentScanEmptyReport ==
    ( Summarised /\ \A i \in 1 .. Len(drained) : NoFrameDrained(i) )
        => /\ Len(report) = Len(drained)
           /\ \A i \in 1 .. Len(report) : report[i].responses = << >>
           /\ responding = << >>

\* a scan of two commands is over; no drain returned a frame, though one of
\* them took a control_change out of the input port
C11_Witness ==
    /\ Summarised
    /\ Len(report) = 2
    /\ \A i \in 1 .. Len(drained) : NoFrameDrained(i)
    /\ \E i \in 1 .. Len(drained) : drained[i] # << >>
    /\ responding = << >>

\* the data of the sysex messages among msgs, in the order of msgs
SysexIndexes(msgs) == { k \in 1 .. Len(msgs) : msgs[k].type = "sysex" }

FramesOf(msgs) ==
    [ j \in 1 .. Cardinality(SysexIndexes(msgs)) |->
        msgs[ CHOOSE k \in SysexIndexes(msgs) :
                Cardinality({ m \in SysexIndexes(msgs) : m <= k }) = j ].data ]

\* scan_commands has returned to main, and main has sent nothing since
ScanReturned ==
    /\ raised = ""
    /\ pc \in { "summary", "finally" }

\* the frames sent before the first probe: the enter-edit frame, unless --no-edit
EditFrames == IF no_edit THEN 0 ELSE 1

\* entry i of the report is the record of the probe of command start+i-1,
\* and that probe is frame i of the scan on the wire
EntryOfProbe(i) ==
    /\ report[i].cmd = scan_start + i - 1
    /\ report[i].tx = SYSEX_PREFIX \o << scan_start + i - 1 >>
    /\ report[i].responses = FramesOf(drained[i])
    /\ wire[EditFrames + i] =
           [data |-> SYSEX_PREFIX \o << scan_start + i - 1 >>, type |-> "sysex"]

OneProbePerCommand ==
    /\ raised # "ValueError"
    /\ pc \in { "scan", "probe_sleep" } => Len(wire) <= EditFrames + scan_end - scan_start + 1
    /\ ScanReturned =>
          /\ Len(report) = scan_end - scan_start + 1
          /\ Len(drained) = Len(report)
          /\ Len(wire) = EditFrames + Len(report)
          /\ \A i \in 1 .. Len(report) : EntryOfProbe(i)

\* C12 as stated: over any [start, end] the scan does not abort, sends one
\* probe [cmd] per command in ascending order and returns end-start+1 entries,
\* entry i recording command start+i, its tx bytes and its responses.
C12_AnyRange == OneProbePerCommand

\* C12: for 0 <= start <= end <= 127 a scan that is not interrupted does not
\* abort, sends exactly one probe [cmd] per command in ascending order, stops
\* after the probe of end, and returns end-start+1 entries, entry i recording
\* command start+i, its tx bytes prefix+[cmd] and the responses of that probe,
\* empty or not.
C12_DataByteRange ==
    ( 0 <= scan_start /\ scan_start <= scan_end /\ scan_end <= 127 )
        => OneProbePerCommand

\* a scan of two commands has returned: one probe got a response, the other
\* got none
C12_Witness ==
    /\ ScanReturned
    /\ 0 <= scan_start /\ scan_start <= scan_end /\ scan_end <= 127
    /\ Len(report) = 2
    /\ \E i, j \in 1 .. 2 : report[i].responses = << >> /\ report[j].responses # << >>

-----------------------------------------------------------------------------
(* Claims about edit mode *)

EnterEditFrame == [data |-> SYSEX_PREFIX \o << CMD_ENTER_EDIT >>, type |-> "sysex"]

ExitEditFrame == [data |-> SYSEX_PREFIX \o << CMD_EXIT_EDIT >>, type |-> "sysex"]

\* the positions on the wire of the frames that change the mode of the device
ModeFrameIndexes ==
    { k \in 1 .. Len(wire) : wire[k] \in { EnterEditFrame, ExitEditFrame } }

\* the last frame sent that changed the mode is an enter-edit frame
DeviceLeftInEditMode ==
    \E k \in ModeFrameIndexes :
        /\ wire[k] = EnterEditFrame
        /\ \A m \in ModeFrameIndexes : m <= k

\* the ports have been closed: by disconnect(), by the finally clause of
\* the scanner, or with the scanner's process
PortsClosed ==
    /\ ~port
    /\ call.op = "disconnect" \/ pc \in { "exited", "killed" }

\* C13: once the ports are closed, every enter-edit frame sent has been
\* followed by an exit-edit frame, whatever interruption came after it.
C13_EditModeReleased == PortsClosed => ~DeviceLeftInEditMode

-----------------------------------------------------------------------------
(* Claims about the exchanges of the scanner, checked under SpecScan *)

\* main is in the sleep of a send_sysex
InSettleDelay == pc \in { "enter_sleep", "probe_sleep", "exit_sleep" }

\* C14 as stated: in every execution a frame is sent only when every frame
\* sent before it has been followed by a drain of the input port.
C14_OneOutstandingAlways == outstanding <= 1

\* C14: in an execution of the scanner that no KeyboardInterrupt has cut
\* short, a frame is outstanding exactly during the settle delay of its
\* send_sysex and the next frame is sent only after the drain; after a
\* KeyboardInterrupt during a settle delay the exit-edit frame of the finally
\* clause is sent with that one frame still outstanding.
C14_OneOutstandingUnlessInterrupted ==
    /\ raised # "KeyboardInterrupt" =>
          /\ outstanding <= 1
          /\ outstanding = 1 <=> InSettleDelay
    /\ outstanding <= 2
    /\ outstanding = 2 => pc \in { "exit_sleep", "killed" }

\* the second probe of a scan is in its settle delay, the first one drained
C14_Witness ==
    /\ raised = ""
    /\ pc = "probe_sleep"
    /\ Len(drained) = 1
    /\ Len(wire) >= 2
    /\ outstanding = 1

-----------------------------------------------------------------------------
(* Claims about the drain of ZoomG3X._send_sysex, checked under Spec *)

\* the response list that a return value of _send_sysex amounts to: None is
\* no frame, a list of bytes is one frame
Surfaced(returned) == IF returned = << >> THEN << >> ELSE << returned >>

\* C15: a query that drains the input port returns every sysex frame that
\* was waiting there, each as an entry of its own and in arrival order.
C15_EveryFrameSurfaced ==
    [][ ( /\ input_port
          /\ Len(wire') = Len(wire) + 1
          /\ call'.op \in { "get_current_patch_data", "get_current_program" }
          /\ call'.outcome = "sent" )
        => Surfaced(call'.returned) = FramesOf(pending) ]_vars

-----------------------------------------------------------------------------
(* Claims about the report of an interrupted scan, checked under SpecScan *)

\* a KeyboardInterrupt has ended the scan; Len(drained) probes had completed
ScanInterrupted ==
    /\ raised = "KeyboardInterrupt"
    /\ pc \in { "finally", "exit_sleep", "close", "exited", "killed" }

\* entry i of es is the record of the probe of command start+i-1
RecordsProbe(es, i) ==
    /\ es[i].cmd = scan_start + i - 1
    /\ es[i].tx = SYSEX_PREFIX \o << scan_start + i - 1 >>
    /\ es[i].responses = FramesOf(drained[i])

\* C16 as stated: after an interruption main holds the entries of the probes
\* that had completed, in probe order.
C16_CallerKeepsEntries ==
    ScanInterrupted =>
        /\ Len(report) = Len(drained)
        /\ \A i \in 1 .. Len(report) : RecordsProbe(report, i)

\* C16: at every moment, also after an interruption, the log file holds the
\* entries of the probes that have completed, in probe order; main holds a
\* report only when scan_commands returned it, which is the complete one.
C16_LogKeepsEntries ==
    /\ Len(log) = Len(drained)
    /\ \A i \in 1 .. Len(log) : RecordsProbe(log, i)
    /\ report # << >> =>
          /\ Len(report) = scan_end - scan_start + 1
          /\ report = log

\* a scan of two commands was interrupted after its first probe and main has
\* ended: the log file has that entry, main has no report
C16_Witness ==
    /\ ScanInterrupted
    /\ pc = "exited"
    /\ scan_end = scan_start + 1
    /\ Len(log) = 1
    /\ log[1].responses # << >>
    /\ report = << >>

-----------------------------------------------------------------------------
(* Claims about the patch name and the knob values, checked under SpecParse *)

\* the bytes of the frame at offsets 96..106, as many as the frame has
NameWindow == SubSeq(data, 97, IF Len(data) < 107 THEN Len(data) ELSE 107)

\* w up to its first zero byte
BeforeZero(w) ==
    LET zeros == { k \in 1 .. Len(w) : w[k] = 0 }
    IN  IF zeros = {} THEN w
        ELSE SubSeq(w, 1, (CHOOSE k \in zeros : \A m \in zeros : k <= m) - 1)

\* the bytes of w in 32..126, in order
PrintableOf(w) == SelectSeq(w, LAMBDA b : b \in 32 .. 126)

\* w from its first to its last byte that is not a space
Trimmed(w) ==
    LET solid == { k \in 1 .. Len(w) : w[k] # 32 }
    IN  IF solid = {} THEN << >>
        ELSE SubSeq(w, CHOOSE k \in solid : \A m \in solid : k <= m,
                       CHOOSE k \in solid : \A m \in solid : m <= k)

\* the decoded name is the one the window gives, at most 11 printable characters
NameFromWindow ==
    /\ patch.patch_name = Trimmed(PrintableOf(BeforeZero(NameWindow)))
    /\ Len(patch.patch_name) <= 11
    /\ \A k \in 1 .. Len(patch.patch_name) : patch.patch_name[k] \in 32 .. 126

SevenBitFrame == \A k \in 1 .. Len(data) : data[k] \in 0 .. 127

\* the offset of the second knob of each slot, slot 0 first
Knob2Offsets == << 8, 22, 35, 50, 64, 78 >>

\* the knob values of slot i, given the byte at its offset and the next one
KnobValuesFromTable(i, first, second) ==
    LET kv == patch.effect_slots[i + 1].knob_values
    IN  /\ Len(kv) = 4
        /\ kv[1] = 0 /\ kv[3] = 0 /\ kv[4] = 0
        /\ IF i \in { 1, 2 }
           THEN kv[2] = first + 128 * second /\ kv[2] \in 0 .. 16383
           ELSE kv[2] = first /\ kv[2] \in 0 .. 127

\* C18: in the snapshot of a valid frame of 7-bit bytes, the second knob of
\* slot i is read at offset p = [8, 22, 35, 50, 64, 78][i]: the 14-bit value
\* data[p] + 128 * data[p+1] for slots 1 and 2, the byte data[p] for the
\* others; the other three knob values are 0.
C18_Knob2FromTable ==
    ( phase = "return" /\ ValidFrame /\ SevenBitFrame ) =>
        \A i \in 0 .. 5 :
            KnobValuesFromTable(i, data[Knob2Offsets[i + 1] + 1],
                                   data[Knob2Offsets[i + 1] + 2])

\* a valid 7-bit frame whose byte at every offset is the offset: slot 1 has
\* 22 + 128 * 23 and slot 3 has 50
C18_Witness ==
    /\ phase = "return" /\ ValidFrame /\ SevenBitFrame
    /\ \A k \in 5 .. Len(data) : data[k] = k - 1
    /\ patch.effect_slots[2].knob_values = << 0, 2966, 0, 0 >>
    /\ patch.effect_slots[4].knob_values = << 0, 50, 0, 0 >>

-----------------------------------------------------------------------------
(* Claims about ZoomG3X.in_edit_mode, checked under Spec *)

\* C19: in_edit_mode is true exactly when the last mode frame handed to the
\* port is an enter-edit frame, so never before one has been sent, and it is
\* false once disconnect() has returned.
C19_FlagFollowsModeFrames ==
    /\ in_edit_mode <=> DeviceLeftInEditMode
    /\ call.op = "disconnect" => ~in_edit_mode
====
